---- MODULE Spec2Model ----
(***************************************************************************)
(* The crawl scheduler of inhuman: Crawler (src/cli.js lines 169-429) and  *)
(* the command-line client that drives it (src/cli.js lines 29-104).       *)
(*                                                                         *)
(* URLs are sequences of tokens.  The first token is the scheme-and-host   *)
(* part, the following tokens are pieces of the path, the query marker "?" *)
(* or the fragment marker "#"; whatever follows a marker belongs to the    *)
(* query or to the fragment.  String operations of the source (split,      *)
(* indexOf) are modelled on these sequences.                               *)
(***************************************************************************)
EXTENDS Integers, Sequences, FiniteSets, TLC

\* ------------------------------------------------------------------ bounds
\* Longest tail (tokens after the host) of a request URL.
MaxTail == 2
\* Tasks (pushes to the work queue) of one run.
MaxTasks == 2
\* Calls of the public queue(url) operation by the client.
MaxSeeds == 2
\* Anchors one page returns to link discovery.
MaxLinks == 2
\* Entries of _processPage within one task (1 + form submissions followed).
MaxDepth == 3
\* Requests one page sends to one normalized URL.
MaxAttempts == 7

\* ------------------------------------------------------------- URL algebra
SentryCdn == "https://browser.sentry-cdn.com"
SentryApi == "https://sentry.io/api/"
Example   == "https://example.com"
Other     == "https://other.org"
Hosts     == {SentryCdn, SentryApi, Example, Other}

\* Path pieces: "a" is a neutral piece, "analytics" is an entry of the built-in
\* denylist, "blocked" an entry an operator may put in options.blockList.
TailTokens == {"a", "analytics", "blocked", "?", "#"}

RECURSIVE Tails(_)
Tails(n) ==
    IF n = 0 THEN {<<>>}
    ELSE LET shorter == Tails(n - 1)
         IN  shorter \cup {Append(s, t) : s \in {x \in shorter : Len(x) = n - 1}, t \in TailTokens}

\* Every URL a page may request.
RequestUrls == {<<h>> \o t : h \in Hosts, t \in Tails(MaxTail)}

\* Index of the first occurrence of tok in s, 0 when there is none (indexOf).
IndexOf(s, tok) ==
    IF \E i \in 1..Len(s) : s[i] = tok
    THEN CHOOSE i \in 1..Len(s) : s[i] = tok /\ \A j \in 1..(i - 1) : s[j] # tok
    ELSE 0

\* s.split(sep)[0]: the part of s before the first sep, s itself without one.
SplitFirst(s, sep) ==
    IF IndexOf(s, sep) = 0 THEN s ELSE SubSeq(s, 1, IndexOf(s, sep) - 1)

\* s.indexOf(r) !== -1 for a one-token r.
Contains(s, r) == IndexOf(s, r) # 0

\* A listener that cuts the fragment and keeps the query.
NormalizeKeepsQuery(url) == SplitFirst(url, "#")

\* request._url.split("?")[0].split("#")[0]
NormalizeRequestUrl(url) == SplitFirst(SplitFirst(url, "?"), "#")

\* link.split("#")[0]
StripFragment(link) == SplitFirst(link, "#")

\* ----------------------------------------------------------------- policy
BLOCKED_RESOURCE_TYPES ==
    {"image", "media", "font", "texttrack", "object", "beacon", "imageset"}

SKIPPED_RESOURCES == {"analytics"}

\* The resource kinds the model draws requests from.
ResourceKinds == {"document", "script", "image"}

RetryCeiling == 5

isSentryResource(url) ==
    \/ url[1] = SentryCdn
    \/ url[1] = SentryApi

\* utils.isLinkAllowed(link, domains): the registrable domain of the link's
\* host is one of the allowed domains.
isLinkAllowed(link, domains) == link[1] \in domains

\* A listener that asks for the timeout before it asks for the telemetry endpoint.
DecideTimeoutFirst(requestUrl, kind, hasTimedOut, n, blockList, domains) ==
    IF hasTimedOut THEN "abort"
    ELSE IF isSentryResource(requestUrl) THEN "continue"
    ELSE IF n > RetryCeiling THEN "abort"
    ELSE IF \/ kind \in BLOCKED_RESOURCE_TYPES
            \/ \E r \in SKIPPED_RESOURCES : Contains(requestUrl, r)
            \/ \E r \in blockList : Contains(requestUrl, r)
         THEN "abort"
    ELSE IF kind = "document" /\ ~isLinkAllowed(requestUrl, domains) THEN "abort"
    ELSE "continue"

\* The "request" listener of one page: the decision for a request, given the
\* attempt count n the listener has just written for its normalized URL.
Decide(requestUrl, kind, hasTimedOut, n, blockList, domains) ==
    IF isSentryResource(requestUrl) THEN "continue"
    ELSE IF hasTimedOut THEN "abort"
    ELSE IF n > RetryCeiling THEN "abort"
    ELSE IF \/ kind \in BLOCKED_RESOURCE_TYPES
            \/ \E r \in SKIPPED_RESOURCES : Contains(requestUrl, r)
            \/ \E r \in blockList : Contains(requestUrl, r)
         THEN "abort"
    ELSE IF kind = "document" /\ ~isLinkAllowed(requestUrl, domains) THEN "abort"
    ELSE "continue"

\* ------------------------------------------------------------ crawl inputs
\* The URLs the client seeds the crawl with.  "login" ends a path that the
\* login-form pattern of the client's formConfigs matches.
SeedUrls == {<<Example, "#">>, <<Example, "login">>}

\* The values of options.maxConcurrency: 0 is what the client computes on a
\* host with one CPU (os.cpus().length - 1), 2 on one with three.
GivenConcurrency == {0, 1, 2}

\* The hrefs a page may hold.
LinkUrls ==
    {<<Example>>, <<Example, "#">>, <<Example, "a">>, <<Example, "analytics">>, <<Other>>}

RECURSIVE SeqsUpTo(_, _)
SeqsUpTo(S, n) ==
    IF n = 0 THEN {<<>>}
    ELSE LET shorter == SeqsUpTo(S, n - 1)
         IN  shorter \cup {Append(s, x) : s \in {y \in shorter : Len(y) = n - 1}, x \in S}

\* The lists of hrefs that page.$$eval may return for the anchors of a page.
LinkSeqs == SeqsUpTo(LinkUrls, MaxLinks)

\* options.domains as the client computes it from the initial URL.
AllowedDomains == {Example}

\* formConfigs.find(x => url.match(x.url)) finds the login form.
MatchesForm(url) == url[Len(url)] = "login"

Tasks == 1..MaxTasks

VARIABLES
    optMaxConcurrency,  \* options.maxConcurrency (0: absent, or the number 0)
    screenshots,        \* this.screenshots is set
    blockList,          \* this.blockList
    visited,            \* this._visited
    pushed,             \* every Task the work queue received, in order, with the
                        \* Task whose page held the link (0: the client) and
                        \* where the client's onIdle() stood
    pending,            \* the queue's pending Tasks (indices into pushed)
    inFlight,           \* Tasks whose pull handler the queue waits for
    ended,              \* the queue was ended
    pc,                 \* where each Task's _request stands
    hasTimedOut,        \* _request's hasTimedOut, per Task
    resourceAttempts,   \* _request's resourceAttempts, per Task
    closeCalls,         \* calls of page.close() on each Task's page
    depth,              \* entries of _processPage, per Task
    formMatch,          \* the url of the running _processPage matches a form
    browserOf,          \* the browser handle each _request got
    browser,            \* this._browser (0: null)
    launches,           \* calls of puppeteer.launch that succeeded
    errors,             \* this._errors
    idle,               \* the client's onIdle() promise
    closing,            \* where the client's close() calls stand (the one of the
                        \* try, then the one of the finally)
    seeds,              \* calls of queue(url) by the client
    lastRequest,        \* the last request a page's listener decided
    navResult,          \* how page.goto settled, per Task
    requested,          \* requests each page sent, by URL without query and fragment
    opened,             \* the Tasks browser.newPage() returned a page to
    loadRequested,      \* requests each page sent since its last page load began
    thrown,             \* the try of the client's main has thrown
    exitCode            \* the exit code of the process (NotExited while it runs)

vars ==
    <<optMaxConcurrency, screenshots, blockList, visited, pushed, pending, inFlight,
      ended, pc, hasTimedOut, resourceAttempts, closeCalls, depth, formMatch,
      browserOf, browser, launches, errors, idle, closing, seeds, lastRequest,
      navResult, requested, opened, loadRequested, thrown, exitCode>>

NoRequest == [task |-> 0]

\* The exit code of a process that has not exited.
NotExited == -1

\* let resourceAttempts = {}
NoAttempts == <<>>

\* resourceAttempts[requestUrl] || 0
Attempts(attempts, requestUrl) ==
    IF requestUrl \in DOMAIN attempts THEN attempts[requestUrl] ELSE 0

\* resourceAttempts[requestUrl] = n
SetAttempts(attempts, requestUrl, n) ==
    [u \in DOMAIN attempts \cup {requestUrl} |-> IF u = requestUrl THEN n ELSE attempts[u]]

\* The state after new Crawler(options), for the options Init draws.
Constructed(maxConcurrency, shots, blocks) ==
    /\ optMaxConcurrency = maxConcurrency
    /\ screenshots = shots
    /\ blockList = blocks
    /\ visited = {}
    /\ pushed = <<>>
    /\ pending = <<>>
    /\ inFlight = {}
    /\ ended = FALSE
    /\ pc = [t \in Tasks |-> "none"]
    /\ hasTimedOut = [t \in Tasks |-> FALSE]
    /\ resourceAttempts = [t \in Tasks |-> NoAttempts]
    /\ closeCalls = [t \in Tasks |-> 0]
    /\ depth = [t \in Tasks |-> 0]
    /\ formMatch = [t \in Tasks |-> FALSE]
    /\ browserOf = [t \in Tasks |-> 0]
    /\ browser = 0
    /\ launches = 0
    /\ errors = <<>>
    /\ idle = "none"
    /\ closing = "no"
    /\ seeds = 0
    /\ lastRequest = NoRequest
    /\ navResult = [t \in Tasks |-> "none"]
    /\ requested = [t \in Tasks |-> <<>>]
    /\ opened = {}
    /\ loadRequested = [t \in Tasks |-> <<>>]
    /\ thrown = FALSE
    /\ exitCode = NotExited

Init ==
    \E m \in GivenConcurrency : Constructed(m, TRUE, {"blocked"})

\* ------------------------------------------------------------- work queue
DefaultMaxConcurrency == 5

\* new PriorityQueue({ maxConcurrency: options.maxConcurrency || 5 })
QueueMaxConcurrency(given) == IF given = 0 THEN DefaultMaxConcurrency ELSE given

\* PriorityQueue.push(url, options, 0) on a queue in state [pushed, pending]:
\* a Task is appended behind the pending ones of its priority; a push to an
\* ended queue is dropped.
QueuePush(q, url, by) ==
    IF q.ended THEN q
    ELSE [q EXCEPT !.pushed = Append(q.pushed, [url |-> url, by |-> by, idleWas |-> idle]),
                   !.pending = Append(q.pending, Len(q.pushed) + 1)]

\* Crawler.queue(url): the Ledger entry, then the push.
CrawlerQueue(q, url, by) ==
    [QueuePush(q, url, by) EXCEPT !.visited = q.visited \cup {url}]

\* A link discovery that does not ask the Ledger.
RECURSIVE DiscoverLinksUnchecked(_, _, _)
DiscoverLinksUnchecked(q, links, by) ==
    IF links = <<>> THEN q
    ELSE LET link == StripFragment(Head(links))
             next == IF /\ isLinkAllowed(link, AllowedDomains)
                        /\ ~\E r \in SKIPPED_RESOURCES : Contains(link, r)
                     THEN CrawlerQueue(q, link, by)
                     ELSE q
         IN  DiscoverLinksUnchecked(next, Tail(links), by)

\* The forEach of _discoverLinks over the hrefs of one page.
RECURSIVE DiscoverLinks(_, _, _)
DiscoverLinks(q, links, by) ==
    IF links = <<>> THEN q
    ELSE LET link == StripFragment(Head(links))
             next == IF /\ isLinkAllowed(link, AllowedDomains)
                        /\ link \notin q.visited
                        /\ ~\E r \in SKIPPED_RESOURCES : Contains(link, r)
                     THEN CrawlerQueue(q, link, by)
                     ELSE q
         IN  DiscoverLinks(next, Tail(links), by)

QueueState == [visited |-> visited, pushed |-> pushed, pending |-> pending, ended |-> ended]

\* The queue state q replaces the current one; a Task that was pushed is queued.
SetQueue(q) ==
    /\ Len(q.pushed) <= MaxTasks
    /\ visited' = q.visited
    /\ pushed' = q.pushed
    /\ pending' = q.pending

Quiescent(pend, flight) == pend = <<>> /\ flight = {}

\* A _request whose promise settles while _processPage still waits for the anchors.
HandlerSettledEarly(t) == pc[t] \in {"done", "rejected", "links"}

\* The handler's promise has settled.
HandlerSettled(t) == pc[t] \in {"done", "rejected"}

\* ------------------------------------------------------------- the client
\* The client is the main of the command line, which awaits init(), then
\* queue(url), then onIdle(), then close(), calls close() once more in its
\* finally, and exits; it may queue more than one URL.
\* proxy.init() or crawler.init() rejects: the try is left for the finally.
InitFailed ==
    /\ closing = "no"
    /\ idle = "none"
    /\ seeds = 0
    /\ thrown' = TRUE
    /\ closing' = "finally"
    /\ UNCHANGED <<exitCode, loadRequested, navResult, requested, opened,
                   optMaxConcurrency, screenshots, blockList, visited, pushed, pending,
                   inFlight, ended, pc, hasTimedOut, resourceAttempts, closeCalls, depth,
                   formMatch, browserOf, browser, launches, errors, idle, seeds,
                   lastRequest>>

\* crawler.queue(url) called by the client.
Seed(url) ==
    /\ closing = "no"
    /\ idle = "none"
    /\ seeds < MaxSeeds
    /\ seeds' = seeds + 1
    /\ SetQueue(CrawlerQueue(QueueState, url, 0))
    /\ pc' = [t \in Tasks |-> IF t > Len(pushed) /\ t <= Len(pushed') THEN "queued" ELSE pc[t]]
    /\ UNCHANGED <<exitCode, thrown, loadRequested, navResult, requested, opened,
                   optMaxConcurrency, screenshots, blockList, inFlight, ended, hasTimedOut,
                   resourceAttempts, closeCalls, depth, formMatch, browserOf, browser,
                   launches, errors, idle, closing, lastRequest>>

\* crawler.onIdle() called by the client: PriorityQueue.onIdle().
OnIdle ==
    /\ closing = "no"
    /\ idle = "none"
    /\ idle' = IF Quiescent(pending, inFlight) THEN "resolved" ELSE "waiting"
    /\ UNCHANGED <<exitCode, thrown, loadRequested, navResult, requested, opened,
                   optMaxConcurrency, screenshots, blockList, visited, pushed, pending,
                   inFlight, ended, pc, hasTimedOut, resourceAttempts, closeCalls, depth,
                   formMatch, browserOf, browser, launches, errors, closing, seeds,
                   lastRequest>>

\* this._queue.end() stops the dispatch and clears the pending Tasks.
QueueEnd ==
    /\ ended' = TRUE
    /\ pending' = <<>>
    /\ pc' = [t \in Tasks |-> IF pc[t] = "queued" THEN "dropped" ELSE pc[t]]

\* crawler.close() up to its await of the cache.
CloseCall(from, to) ==
    /\ closing = from
    /\ closing' = to
    /\ QueueEnd
    /\ UNCHANGED <<exitCode, thrown, loadRequested, navResult, requested, opened,
                   optMaxConcurrency, screenshots, blockList, visited, pushed, inFlight,
                   hasTimedOut, resourceAttempts, closeCalls, depth, formMatch, browserOf,
                   browser, launches, errors, idle, seeds, lastRequest>>

\* crawler.close() called by the client after onIdle() has resolved.
Close ==
    /\ idle = "resolved"
    /\ CloseCall("no", "cache")

\* crawler.close() called by a client that has not awaited onIdle().
CloseEarly ==
    /\ idle # "resolved"
    /\ CloseCall("no", "cache")

\* crawler.close() called in the finally of the client's main.
FinallyClose ==
    \/ CloseCall("closed", "cacheAgain")
    \/ CloseCall("finally", "cacheAgain")

\* close() after its queue.end(): the cache is cleared and closed, the
\* browser is closed, if there is one, and this._browser is null.  When one
\* of the awaited calls rejects, close() throws and this._browser stays.
CloseBrowser(ok) ==
    /\ closing \in {"cache", "cacheAgain"}
    /\ closing' = IF closing = "cache" THEN "closed" ELSE "closedAgain"
    /\ browser' = IF ok THEN 0 ELSE browser
    /\ thrown' = (thrown \/ ~ok)
    /\ UNCHANGED <<exitCode, loadRequested, navResult, requested, opened,
                   optMaxConcurrency, screenshots, blockList, visited, pushed, pending,
                   inFlight, ended, pc, hasTimedOut, resourceAttempts, closeCalls, depth,
                   formMatch, browserOf, launches, errors, idle, seeds, lastRequest>>

\* A main that exits with 1 only when it has thrown.
ExitCodeIgnoringErrors(threw, errs) == IF threw THEN 1 ELSE 0

\* The exit code of the process: 1 from the catch of main, 1 after
\* errors.length, else 0 when main returns.
ExitCode(threw, errs) ==
    IF threw THEN 1
    ELSE IF Len(errs) # 0 THEN 1
    ELSE 0

\* The main is past its finally: the process exits.
Exit ==
    /\ closing = "closedAgain"
    /\ exitCode = NotExited
    /\ exitCode' = ExitCode(thrown, errors)
    /\ UNCHANGED <<thrown, loadRequested, navResult, requested, opened,
                   optMaxConcurrency, screenshots, blockList, visited, pushed, pending,
                   inFlight, ended, pc, hasTimedOut, resourceAttempts, closeCalls, depth,
                   formMatch, browserOf, browser, launches, errors, idle, closing, seeds,
                   lastRequest>>

\* ---------------------------------------------------------------- dispatch
\* The queue pulls the first pending Task and calls the pull handler, which
\* runs _request up to its first await: getBrowser() returns this._browser or
\* starts puppeteer.launch.
Dispatch ==
    /\ ~ended
    /\ pending # <<>>
    /\ Cardinality(inFlight) < QueueMaxConcurrency(optMaxConcurrency)
    /\ LET t == Head(pending)
       IN  /\ pending' = Tail(pending)
           /\ inFlight' = inFlight \cup {t}
           /\ pc' = [pc EXCEPT ![t] = IF browser # 0 THEN "newPage" ELSE "launch"]
           /\ browserOf' = [browserOf EXCEPT ![t] = browser]
    /\ UNCHANGED <<exitCode, thrown, loadRequested, navResult, requested, opened,
                   optMaxConcurrency, screenshots, blockList, visited, pushed, ended,
                   hasTimedOut, resourceAttempts, closeCalls, depth, formMatch, browser,
                   launches, errors, idle, closing, seeds, lastRequest>>

\* The queue sees the handler's promise settle: the Task is no longer in
\* flight, and a waiting onIdle() resolves when nothing is left.
Settle(t) ==
    /\ t \in inFlight
    /\ HandlerSettled(t)
    /\ inFlight' = inFlight \ {t}
    /\ idle' = IF idle = "waiting" /\ Quiescent(pending, inFlight') THEN "resolved" ELSE idle
    /\ UNCHANGED <<exitCode, thrown, loadRequested, navResult, requested, opened,
                   optMaxConcurrency, screenshots, blockList, visited, pushed, pending,
                   ended, pc, hasTimedOut, resourceAttempts, closeCalls, depth, formMatch,
                   browserOf, browser, launches, errors, closing, seeds, lastRequest>>

\* ---------------------------------------------------------------- _request
config == <<optMaxConcurrency, screenshots, blockList>>
queue == <<visited, pushed, pending, inFlight, ended>>
client == <<idle, closing, seeds>>

Url(t) == pushed[t].url

Record(t, err) == [url |-> Url(t), err |-> err, task |-> t]

\* An error list that takes a new record at its front.
ErrorsUnshift(errs, rec) == <<rec>> \o errs

\* this._errors.push([url, err])
ErrorsPush(errs, rec) == Append(errs, rec)

\* _processPage is entered with a url that matches a form or does not: the
\* screenshot, when screenshots are kept, else the anchors of _discoverLinks.
EnterProcessPage(t, matches) ==
    /\ depth' = [depth EXCEPT ![t] = depth[t] + 1]
    /\ formMatch' = [formMatch EXCEPT ![t] = matches]
    /\ pc' = [pc EXCEPT ![t] = IF screenshots THEN "screenshot" ELSE "links"]

\* The catch of the post-load try: the error is recorded and page.close() called.
Catch(t) ==
    /\ errors' = ErrorsPush(errors, Record(t, "Error"))
    /\ closeCalls' = [closeCalls EXCEPT ![t] = closeCalls[t] + 1]
    /\ pc' = [pc EXCEPT ![t] = "catchClose"]

\* The post-load try ends without an error: the finally calls page.close().
Finally(t) ==
    /\ closeCalls' = [closeCalls EXCEPT ![t] = closeCalls[t] + 1]
    /\ pc' = [pc EXCEPT ![t] = "finallyClose"]

\* Locals that all calls of _request share.
SharedSession(t) == 1

\* The locals of the _request call of Task t (let resourceAttempts, let
\* hasTimedOut): each call has its own.
Session(t) == t

\* puppeteer.launch settles: this._browser is the new handle, and newPage is
\* called on it; a failure leaves _request.
LaunchDone(t, ok) ==
    /\ pc[t] = "launch"
    /\ IF ok
       THEN /\ launches' = launches + 1
            /\ browser' = launches + 1
            /\ browserOf' = [browserOf EXCEPT ![t] = launches + 1]
            /\ pc' = [pc EXCEPT ![t] = "newPage"]
       ELSE /\ pc' = [pc EXCEPT ![t] = "rejected"]
            /\ UNCHANGED <<launches, browser, browserOf>>
    /\ UNCHANGED <<exitCode, thrown, loadRequested, navResult, requested, opened,
                   config, queue, client, hasTimedOut, resourceAttempts, closeCalls,
                   depth, formMatch, errors, lastRequest>>

\* browser.newPage() settles: setRequestInterception is called on the page.
NewPageDone(t, ok) ==
    /\ pc[t] = "newPage"
    /\ pc' = [pc EXCEPT ![t] = IF ok THEN "intercept" ELSE "rejected"]
    /\ opened' = IF ok THEN opened \cup {t} ELSE opened
    /\ UNCHANGED <<exitCode, thrown, loadRequested, navResult, requested,
                   config, queue, client, hasTimedOut, resourceAttempts, closeCalls,
                   depth, formMatch, browserOf, browser, launches, errors, lastRequest>>

\* page.setRequestInterception(true) settles: the listener is installed with
\* fresh resourceAttempts and hasTimedOut, and page.goto is called.
InterceptDone(t, ok) ==
    /\ pc[t] = "intercept"
    /\ pc' = [pc EXCEPT ![t] = IF ok THEN "goto" ELSE "rejected"]
    /\ resourceAttempts' = [resourceAttempts EXCEPT ![Session(t)] = NoAttempts]
    /\ hasTimedOut' = [hasTimedOut EXCEPT ![Session(t)] = FALSE]
    /\ UNCHANGED <<exitCode, thrown, loadRequested, navResult, requested, opened,
                   config, queue, client, closeCalls, depth, formMatch, browserOf,
                   browser, launches, errors, lastRequest>>

NavigationResults == {"ok", "timeout", "error"}

\* A navigation catch that does not mark the page.
NeverTimedOut(result) == FALSE

\* What the catch of the navigation try leaves in hasTimedOut.
TimedOutAfter(result) == result = "timeout"

\* A _request that goes on to the post-load steps after any navigation error.
AfterGotoContinue(result) == "viewport"

\* Where _request goes after page.goto settled.
AfterGoto(result) == IF result = "error" THEN "navClose" ELSE "viewport"

\* page.goto settles.  A TimeoutError sets hasTimedOut and is recorded; any
\* other error is recorded and _request returns page.close(); else, and after
\* a timeout, page.setViewport is called.
GotoDone(t, result) ==
    /\ pc[t] = "goto"
    /\ pc' = [pc EXCEPT ![t] = AfterGoto(result)]
    /\ hasTimedOut' = [hasTimedOut EXCEPT ![Session(t)] = TimedOutAfter(result)]
    /\ navResult' = [navResult EXCEPT ![t] = result]
    /\ errors' = CASE result = "ok" -> errors
                   [] result = "timeout" -> ErrorsPush(errors, Record(t, "TimeoutError"))
                   [] result = "error" -> ErrorsPush(errors, Record(t, "Error"))
    /\ closeCalls' = [closeCalls EXCEPT
                        ![t] = IF AfterGoto(result) = "navClose" THEN closeCalls[t] + 1
                               ELSE closeCalls[t]]
    /\ UNCHANGED <<exitCode, thrown, loadRequested, requested, opened,
                   config, queue, client, resourceAttempts, depth, formMatch, browserOf,
                   browser, launches, lastRequest>>

\* The page.close() that _request returns after a navigation error settles.
NavCloseDone(t, ok) ==
    /\ pc[t] = "navClose"
    /\ pc' = [pc EXCEPT ![t] = IF ok THEN "done" ELSE "rejected"]
    /\ UNCHANGED <<exitCode, thrown, loadRequested, navResult, requested, opened,
                   config, queue, client, hasTimedOut, resourceAttempts, closeCalls,
                   depth, formMatch, browserOf, browser, launches, errors, lastRequest>>

\* page.setViewport settles: _processPage(page, url) is entered.
ViewportDone(t, ok) ==
    /\ pc[t] = "viewport"
    /\ IF ok
       THEN EnterProcessPage(t, MatchesForm(Url(t))) /\ UNCHANGED <<errors, closeCalls>>
       ELSE Catch(t) /\ UNCHANGED <<depth, formMatch>>
    /\ UNCHANGED <<exitCode, thrown, loadRequested, navResult, requested, opened,
                   config, queue, client, hasTimedOut, resourceAttempts, browserOf,
                   browser, launches, lastRequest>>

\* page.screenshot settles: _discoverLinks asks the page for its anchors.
ScreenshotDone(t, ok) ==
    /\ pc[t] = "screenshot"
    /\ IF ok
       THEN pc' = [pc EXCEPT ![t] = "links"] /\ UNCHANGED <<errors, closeCalls>>
       ELSE Catch(t)
    /\ UNCHANGED <<exitCode, thrown, loadRequested, navResult, requested, opened,
                   config, queue, client, hasTimedOut, resourceAttempts, depth, formMatch,
                   browserOf, browser, launches, lastRequest>>

\* page.$$eval("a", ...) settles with the hrefs: the allowed links that the
\* Ledger does not hold are queued, and _emulateScrolling starts.
LinksDone(t, links) ==
    /\ pc[t] = "links"
    /\ SetQueue(DiscoverLinks(QueueState, links, t))
    /\ pc' = [u \in Tasks |->
                IF u = t THEN "scroll"
                ELSE IF u > Len(pushed) /\ u <= Len(pushed') THEN "queued"
                ELSE pc[u]]
    /\ UNCHANGED <<exitCode, thrown, loadRequested, navResult, requested, opened,
                   config, inFlight, ended, client, hasTimedOut, resourceAttempts,
                   closeCalls, depth, formMatch, browserOf, browser, launches, errors,
                   lastRequest>>

\* page.$$eval("a", ...) fails.
LinksFailed(t) ==
    /\ pc[t] = "links"
    /\ Catch(t)
    /\ UNCHANGED <<exitCode, thrown, loadRequested, navResult, requested, opened,
                   config, queue, client, hasTimedOut, resourceAttempts, depth, formMatch,
                   browserOf, browser, launches, lastRequest>>

\* The scrolling of _emulateScrolling settles: _checkAllCheckboxes starts.
ScrollDone(t, ok) ==
    /\ pc[t] = "scroll"
    /\ IF ok
       THEN pc' = [pc EXCEPT ![t] = "checkbox"] /\ UNCHANGED <<errors, closeCalls>>
       ELSE Catch(t)
    /\ UNCHANGED <<exitCode, thrown, loadRequested, navResult, requested, opened,
                   config, queue, client, hasTimedOut, resourceAttempts, depth, formMatch,
                   browserOf, browser, launches, lastRequest>>

\* _checkAllCheckboxes settles.  With a form for the url, the fields are
\* filled, the form is submitted, which begins a new page load, and the
\* navigation awaited; without one
\* _processPage returns, and the finally of _request closes the page.
CheckboxDone(t, ok) ==
    /\ pc[t] = "checkbox"
    /\ IF ~ok THEN Catch(t)
       ELSE IF formMatch[t]
            THEN pc' = [pc EXCEPT ![t] = "waitNav"] /\ UNCHANGED <<errors, closeCalls>>
            ELSE Finally(t) /\ UNCHANGED errors
    /\ loadRequested' = IF ok /\ formMatch[t] THEN [loadRequested EXCEPT ![t] = <<>>]
                        ELSE loadRequested
    /\ UNCHANGED <<exitCode, thrown, navResult, requested, opened,
                   config, queue, client, hasTimedOut, resourceAttempts, depth, formMatch,
                   browserOf, browser, launches, lastRequest>>

\* page.waitForNavigation settles after the form was submitted: _processPage
\* is entered again, for the url the page is at now.
WaitNavDone(t, ok, matches) ==
    /\ pc[t] = "waitNav"
    /\ matches => ok /\ depth[t] + 1 < MaxDepth
    /\ IF ok
       THEN EnterProcessPage(t, matches) /\ UNCHANGED <<errors, closeCalls>>
       ELSE Catch(t) /\ UNCHANGED <<depth, formMatch>>
    /\ UNCHANGED <<exitCode, thrown, loadRequested, navResult, requested, opened,
                   config, queue, client, hasTimedOut, resourceAttempts, browserOf,
                   browser, launches, lastRequest>>

\* The page.close() of the catch settles; whether it failed or not, the
\* finally calls page.close() once more.
CatchCloseDone(t, ok) ==
    /\ pc[t] = "catchClose"
    /\ closeCalls' = [closeCalls EXCEPT ![t] = closeCalls[t] + 1]
    /\ pc' = [pc EXCEPT ![t] = IF ok THEN "finallyClose" ELSE "finallyCloseThrowing"]
    /\ UNCHANGED <<exitCode, thrown, loadRequested, navResult, requested, opened,
                   config, queue, client, hasTimedOut, resourceAttempts, depth, formMatch,
                   browserOf, browser, launches, errors, lastRequest>>

\* The page.close() of the finally settles: _request returns, or throws what
\* the catch or the finally threw.
FinallyCloseDone(t, ok) ==
    /\ pc[t] \in {"finallyClose", "finallyCloseThrowing"}
    /\ pc' = [pc EXCEPT ![t] = IF ok /\ pc[t] = "finallyClose" THEN "done" ELSE "rejected"]
    /\ UNCHANGED <<exitCode, thrown, loadRequested, navResult, requested, opened,
                   config, queue, client, hasTimedOut, resourceAttempts, closeCalls,
                   depth, formMatch, browserOf, browser, launches, errors, lastRequest>>

\* -------------------------------------------------------------- requests
\* A URL up to its query or fragment, whichever comes first.
WithoutQueryAndFragment(url) ==
    SubSeq(url, 1, Cardinality({i \in 1..Len(url) : \A j \in 1..i : url[j] \notin {"?", "#"}}))

\* The pages whose "request" listener is installed and not yet closed.
Listening(t) ==
    pc[t] \in {"goto", "viewport", "screenshot", "links", "scroll", "checkbox", "waitNav"}

\* A listener that records a request it blocks as an error of the page.
ListenerRecordsBlock(errs, t, decision) ==
    IF decision = "abort" THEN Append(errs, [url |-> Url(t), err |-> "Forbidden", task |-> t])
    ELSE errs

\* this._errors after the listener has decided: request.abort() and
\* request.continue() are all it calls, besides console.
ListenerErrors(errs, t, decision) == errs

\* The listener of Task t's page receives a request.
Request(t, url, kind) ==
    /\ Listening(t)
    /\ LET requestUrl == NormalizeRequestUrl(url)
           n == Attempts(resourceAttempts[Session(t)], requestUrl) + 1
       IN  /\ n <= MaxAttempts
           /\ resourceAttempts' =
                [resourceAttempts EXCEPT
                   ![Session(t)] = SetAttempts(resourceAttempts[Session(t)], requestUrl, n)]
           /\ requested' =
                [requested EXCEPT
                   ![t] = SetAttempts(requested[t], WithoutQueryAndFragment(url),
                                      Attempts(requested[t], WithoutQueryAndFragment(url)) + 1)]
           /\ loadRequested' =
                [loadRequested EXCEPT
                   ![t] = SetAttempts(loadRequested[t], WithoutQueryAndFragment(url),
                                      Attempts(loadRequested[t], WithoutQueryAndFragment(url)) + 1)]
           /\ lastRequest' =
                [task |-> t, url |-> url, kind |-> kind, attempt |-> n,
                 nth |-> Attempts(requested[t], WithoutQueryAndFragment(url)) + 1,
                 nthInLoad |-> Attempts(loadRequested[t], WithoutQueryAndFragment(url)) + 1,
                 timedOut |-> hasTimedOut[Session(t)],
                 afterTimeout |-> navResult[t] = "timeout",
                 decision |-> Decide(requestUrl, kind, hasTimedOut[Session(t)], n, blockList,
                                     AllowedDomains)]
           /\ errors' = ListenerErrors(errors, t,
                                       Decide(requestUrl, kind, hasTimedOut[Session(t)], n,
                                              blockList, AllowedDomains))
    /\ UNCHANGED <<exitCode, thrown, navResult, opened,
                   config, queue, client, pc, hasTimedOut, closeCalls, depth, formMatch,
                   browserOf, browser, launches>>

\* --------------------------------------------------------- specifications
Handler(t) ==
    \/ \E ok \in BOOLEAN : LaunchDone(t, ok)
    \/ \E ok \in BOOLEAN : NewPageDone(t, ok)
    \/ \E ok \in BOOLEAN : InterceptDone(t, ok)
    \/ \E result \in NavigationResults : GotoDone(t, result)
    \/ \E ok \in BOOLEAN : NavCloseDone(t, ok)
    \/ \E ok \in BOOLEAN : ViewportDone(t, ok)
    \/ \E ok \in BOOLEAN : ScreenshotDone(t, ok)
    \/ \E links \in LinkSeqs : LinksDone(t, links)
    \/ LinksFailed(t)
    \/ \E ok \in BOOLEAN : ScrollDone(t, ok)
    \/ \E ok \in BOOLEAN : CheckboxDone(t, ok)
    \/ \E ok, matches \in BOOLEAN : WaitNavDone(t, ok, matches)
    \/ \E ok \in BOOLEAN : CatchCloseDone(t, ok)
    \/ \E ok \in BOOLEAN : FinallyCloseDone(t, ok)

\* A crawl: the client seeds, waits and closes while the queue runs the Tasks.
Next ==
    \/ \E url \in SeedUrls : Seed(url)
    \/ OnIdle
    \/ InitFailed
    \/ Close
    \/ FinallyClose
    \/ \E ok \in BOOLEAN : CloseBrowser(ok)
    \/ Exit
    \/ Dispatch
    \/ \E t \in Tasks : Settle(t)
    \/ \E t \in Tasks : Handler(t)

Spec == Init /\ [][Next]_vars

\* One page under load: the client has queued one URL, which matches no
\* form, and awaits onIdle(); the page holds no anchors and sends requests
\* while _request runs.
PageRequestUrls == {<<Example, "a">>, <<Example, "a", "?">>, <<SentryApi, "a">>}

\* The state after the client has queued url and called onIdle().
QueuedOne(url) ==
    /\ optMaxConcurrency = 1
    /\ screenshots = TRUE
    /\ blockList = {"blocked"}
    /\ visited = {url}
    /\ pushed = <<[url |-> url, by |-> 0, idleWas |-> "none"]>>
    /\ pending = <<1>>
    /\ inFlight = {}
    /\ ended = FALSE
    /\ pc = [t \in Tasks |-> IF t = 1 THEN "queued" ELSE "none"]
    /\ hasTimedOut = [t \in Tasks |-> FALSE]
    /\ resourceAttempts = [t \in Tasks |-> NoAttempts]
    /\ closeCalls = [t \in Tasks |-> 0]
    /\ depth = [t \in Tasks |-> 0]
    /\ formMatch = [t \in Tasks |-> FALSE]
    /\ browserOf = [t \in Tasks |-> 0]
    /\ browser = 0
    /\ launches = 0
    /\ errors = <<>>
    /\ idle = "waiting"
    /\ closing = "no"
    /\ seeds = 1
    /\ lastRequest = NoRequest
    /\ navResult = [t \in Tasks |-> "none"]
    /\ requested = [t \in Tasks |-> <<>>]
    /\ opened = {}
    /\ loadRequested = [t \in Tasks |-> <<>>]
    /\ thrown = FALSE
    /\ exitCode = NotExited

InitPage == \E url \in {u \in SeedUrls : ~MatchesForm(u)} : QueuedOne(url)

PageHandler(t) ==
    \/ \E ok \in BOOLEAN : LaunchDone(t, ok)
    \/ \E ok \in BOOLEAN : NewPageDone(t, ok)
    \/ \E ok \in BOOLEAN : InterceptDone(t, ok)
    \/ \E result \in NavigationResults : GotoDone(t, result)
    \/ \E ok \in BOOLEAN : NavCloseDone(t, ok)
    \/ \E ok \in BOOLEAN : ViewportDone(t, ok)
    \/ \E ok \in BOOLEAN : ScreenshotDone(t, ok)
    \/ LinksDone(t, <<>>)
    \/ LinksFailed(t)
    \/ \E ok \in BOOLEAN : ScrollDone(t, ok)
    \/ \E ok \in BOOLEAN : CheckboxDone(t, ok)
    \/ \E ok \in BOOLEAN : CatchCloseDone(t, ok)
    \/ \E ok \in BOOLEAN : FinallyCloseDone(t, ok)

NextPage ==
    \/ Dispatch
    \/ \E t \in Tasks : Settle(t)
    \/ \E t \in Tasks : PageHandler(t)
    \/ \E t \in Tasks, url \in PageRequestUrls, kind \in ResourceKinds : Request(t, url, kind)
    \/ Close
    \/ \E ok \in BOOLEAN : CloseBrowser(ok)

SpecPage == InitPage /\ [][NextPage]_vars

\* One login page under load: the client has queued a URL that matches the
\* login form and awaits onIdle(); the form is submitted, which begins a new
\* page load on the same page, and the pages send script requests to one URL
\* of the site.
ReloadRequestUrls == {<<Example, "a">>}

InitReload == \E url \in {u \in SeedUrls : MatchesForm(u)} : QueuedOne(url)

NextReload ==
    \/ Dispatch
    \/ \E t \in Tasks : Settle(t)
    \/ \E t \in Tasks : PageHandler(t)
    \/ \E t \in Tasks : \E ok, matches \in BOOLEAN : WaitNavDone(t, ok, matches)
    \/ \E t \in Tasks, url \in ReloadRequestUrls : Request(t, url, "script")

SpecReload == InitReload /\ [][NextReload]_vars

\* The crawl of one seed under a ceiling of one: the client has queued one
\* URL and awaits onIdle(); the pages hold anchors and send no requests.
NextDiscover ==
    \/ Dispatch
    \/ \E t \in Tasks : Settle(t)
    \/ \E t \in Tasks : Handler(t)
    \/ Close
    \/ \E ok \in BOOLEAN : CloseBrowser(ok)

\* The seeds of this crawl: those of the client, and the root of the site,
\* which the pages link to.
DiscoverSeedUrls == SeedUrls \cup {<<Example>>}

InitDiscover == \E url \in DiscoverSeedUrls : QueuedOne(url)

SpecDiscover == InitDiscover /\ [][NextDiscover]_vars

\* Two sibling pages under load: the client has queued two URLs and awaits
\* onIdle(), both Tasks were dispatched and hold a page of the one browser,
\* with its listener installed; the pages hold no anchors, their post-load
\* steps do not fail, and they send script requests to one URL of the site.
SiblingRequestUrls == {<<Example, "a">>}

\* The two Tasks of the client's two URLs.
Siblings == {1, 2}

InitSiblings ==
    /\ optMaxConcurrency = 2
    /\ screenshots = TRUE
    /\ blockList = {"blocked"}
    /\ visited = SeedUrls
    /\ pushed = <<[url |-> <<Example, "#">>, by |-> 0, idleWas |-> "none"],
                  [url |-> <<Example, "login">>, by |-> 0, idleWas |-> "none"]>>
    /\ pending = <<>>
    /\ inFlight = Siblings
    /\ ended = FALSE
    /\ pc = [t \in Tasks |-> IF t \in Siblings THEN "goto" ELSE "none"]
    /\ hasTimedOut = [t \in Tasks |-> FALSE]
    /\ resourceAttempts = [t \in Tasks |-> NoAttempts]
    /\ closeCalls = [t \in Tasks |-> 0]
    /\ depth = [t \in Tasks |-> 0]
    /\ formMatch = [t \in Tasks |-> FALSE]
    /\ browserOf = [t \in Tasks |-> IF t \in Siblings THEN 1 ELSE 0]
    /\ browser = 1
    /\ launches = 1
    /\ errors = <<>>
    /\ idle = "waiting"
    /\ closing = "no"
    /\ seeds = 2
    /\ lastRequest = NoRequest
    /\ navResult = [t \in Tasks |-> "none"]
    /\ requested = [t \in Tasks |-> <<>>]
    /\ opened = Siblings
    /\ loadRequested = [t \in Tasks |-> <<>>]
    /\ thrown = FALSE
    /\ exitCode = NotExited

SiblingHandler(t) ==
    \/ \E result \in NavigationResults : GotoDone(t, result)
    \/ NavCloseDone(t, TRUE)
    \/ ViewportDone(t, TRUE)
    \/ ScreenshotDone(t, TRUE)
    \/ LinksDone(t, <<>>)
    \/ ScrollDone(t, TRUE)
    \/ CheckboxDone(t, TRUE)
    \/ WaitNavDone(t, TRUE, FALSE)
    \/ FinallyCloseDone(t, TRUE)

NextSiblings ==
    \/ \E t \in Siblings : SiblingHandler(t)
    \/ \E t \in Siblings : Settle(t)
    \/ \E t \in Siblings, url \in SiblingRequestUrls : Request(t, url, "script")

SpecSiblings == InitSiblings /\ [][NextSiblings]_vars

\* A crawl under a ceiling of one whose client may call close() at any
\* point, as the finally of the main does when its try has thrown.
InitTeardown == Constructed(1, TRUE, {"blocked"})

NextTeardown ==
    \/ \E url \in SeedUrls : Seed(url)
    \/ OnIdle
    \/ Close
    \/ CloseEarly
    \/ \E ok \in BOOLEAN : CloseBrowser(ok)
    \/ Dispatch
    \/ \E t \in Tasks : Settle(t)
    \/ \E t \in Tasks : Handler(t)

SpecTeardown == InitTeardown /\ [][NextTeardown]_vars

\* The request listener as a function of its inputs: a page in the middle of
\* its load, after or without a timeout, that has sent n requests to every
\* URL, receives one request.
InitPolicy ==
    \E blocks \in SUBSET {"blocked"}, timedOut \in BOOLEAN, n \in 0..(MaxAttempts - 1) :
        LET url == <<Example>>
            sent == IF n = 0 THEN <<>>
                    ELSE [u \in {NormalizeRequestUrl(r) : r \in RequestUrls} |-> n]
        IN  /\ optMaxConcurrency = 1
            /\ screenshots = TRUE
            /\ blockList = blocks
            /\ visited = {url}
            /\ pushed = <<[url |-> url, by |-> 0, idleWas |-> "none"]>>
            /\ pending = <<>>
            /\ inFlight = {1}
            /\ ended = FALSE
            /\ pc = [t \in Tasks |-> IF t = 1 THEN "scroll" ELSE "none"]
            /\ hasTimedOut = [t \in Tasks |-> t = 1 /\ timedOut]
            /\ resourceAttempts = [t \in Tasks |-> IF t = 1 THEN sent ELSE NoAttempts]
            /\ closeCalls = [t \in Tasks |-> 0]
            /\ depth = [t \in Tasks |-> IF t = 1 THEN 1 ELSE 0]
            /\ formMatch = [t \in Tasks |-> FALSE]
            /\ browserOf = [t \in Tasks |-> IF t = 1 THEN 1 ELSE 0]
            /\ browser = 1
            /\ launches = 1
            /\ errors = IF timedOut
                        THEN <<[url |-> url, err |-> "TimeoutError", task |-> 1]>>
                        ELSE <<>>
            /\ idle = "waiting"
            /\ closing = "no"
            /\ seeds = 1
            /\ lastRequest = NoRequest
            /\ navResult = [t \in Tasks |->
                              IF t # 1 THEN "none" ELSE IF timedOut THEN "timeout" ELSE "ok"]
            /\ requested = [t \in Tasks |-> IF t = 1 THEN sent ELSE <<>>]
            /\ opened = {1}
            /\ loadRequested = [t \in Tasks |-> IF t = 1 THEN sent ELSE <<>>]
            /\ thrown = FALSE
            /\ exitCode = NotExited

PolicyRequest(url, kind) ==
    /\ lastRequest = NoRequest
    /\ Request(1, url, kind)

NextPolicy == \E url \in RequestUrls, kind \in ResourceKinds : PolicyRequest(url, kind)

SpecPolicy == InitPolicy /\ [][NextPolicy]_vars

\* ------------------------------------------------------------------ claims
\* The Tasks whose _request has been called and has not settled.
Running == {t \in Tasks : pc[t] \notin {"none", "queued", "dropped", "done", "rejected"}}

Finished(t) == pc[t] \in {"done", "rejected"}

ErrorsOf(t) == {i \in 1..Len(errors) : errors[i].task = t}

PushedBy(t) == {i \in 1..Len(pushed) : pushed[i].by = t}

\* C1: the work queue receives at most one Task per canonical URL (the URL
\* without its fragment), whatever the pages link to, for a client that
\* queues no URL twice.
C1_AtMostOncePerCanonicalUrl ==
    (\A i, j \in PushedBy(0) : pushed[i].url = pushed[j].url => i = j) =>
        \A i, j \in 1..Len(pushed) :
            StripFragment(pushed[i].url) = StripFragment(pushed[j].url) => i = j

\* C2: no step pushes a URL that the Visited Ledger held before the step.
C2_LedgerUrlNeverPushedAgain ==
    [][\A i \in (Len(pushed) + 1)..Len(pushed') : pushed'[i].url \notin visited]_vars

\* C3: the number of Tasks whose pull handler was called and has not settled
\* never exceeds the maxConcurrency the Crawler was constructed with.
C3_ConcurrencyCeiling == Cardinality(Running) <= optMaxConcurrency

\* C4: onIdle() resolves only when no Task is pending or in flight and every
\* Task pushed so far, those pushed while it waited included, has finished;
\* link discovery pushes nothing once it has resolved; and called when no
\* work was ever queued it resolves.
C4_QuiescenceCorrect ==
    [][/\ (idle # "resolved" /\ idle' = "resolved") =>
            /\ pending' = <<>>
            /\ inFlight' = {}
            /\ \A t \in 1..Len(pushed') : Finished(t)'
       /\ idle = "resolved" => pushed' = pushed
       /\ (idle = "none" /\ idle' # "none" /\ pushed = <<>>) => idle' = "resolved"]_vars

\* C4 witness: onIdle() has resolved after a Task that link discovery pushed
\* while it was waiting ran to its end.
C4_Witness ==
    /\ idle = "resolved"
    /\ \E i \in 1..Len(pushed) :
          pushed[i].by # 0 /\ pushed[i].idleWas = "waiting" /\ pc[i] = "done"

\* C8: after a navigation error that is no timeout the Task has exactly one
\* Error Record, with its URL, its page is closed once, no post-load step has
\* run and it has pushed no link.
C8_NavigationErrorIsTerminal ==
    \A t \in Tasks :
        navResult[t] = "error" =>
            /\ pc[t] \in {"navClose", "done", "rejected"}
            /\ depth[t] = 0
            /\ closeCalls[t] = 1
            /\ Cardinality(ErrorsOf(t)) = 1
            /\ \A i \in ErrorsOf(t) : errors[i].url = Url(t) /\ errors[i].err = "Error"
            /\ PushedBy(t) = {}

\* C8 witness: a Task whose navigation failed has settled while another Task,
\* whose navigation did not fail, holds a page.
C8_Witness ==
    \E t, u \in Tasks :
        /\ navResult[t] = "error" /\ pc[t] = "done" /\ t \notin inFlight
        /\ navResult[u] = "ok" /\ depth[u] > 0

\* C9: when the handler of a Task that was given a page has settled, the page
\* has been closed.
C9_SessionReleasedOnEveryPath ==
    \A t \in opened : Finished(t) => closeCalls[t] >= 1

\* C10: no failure of a step of a Task leaves _request: the handler's promise
\* is never rejected (a failed launch of the shared browser, which the design
\* counts as fatal for the crawl, left aside).
C10_FailuresContained ==
    \A t \in Tasks : pc[t] = "rejected" => browserOf[t] = 0

\* The rules of the policy, in their order, for a request whose URL the
\* denylist rule reads as seen; the other rules read the scheme and host.
IsTelemetry(url) == url[1] \in {SentryCdn, SentryApi}

Denylisted(seen) ==
    \E i \in 1..Len(seen) : seen[i] \in SKIPPED_RESOURCES \cup blockList

OffDomainDocument(url, kind) == kind = "document" /\ url[1] \notin AllowedDomains

FirstMatchingRule(url, seen, kind, timedOut, count) ==
    CASE IsTelemetry(url) -> "continue"
      [] OTHER ->
    CASE timedOut -> "abort"
      [] OTHER ->
    CASE count > 5 -> "abort"
      [] OTHER ->
    CASE kind \in BLOCKED_RESOURCE_TYPES -> "abort"
      [] OTHER ->
    CASE Denylisted(seen) -> "abort"
      [] OTHER ->
    CASE OffDomainDocument(url, kind) -> "abort"
      [] OTHER -> "continue"

\* C5 as claimed: the listener's decision is the first matching rule, the
\* denylist rule matching a URL that contains a denylisted substring.
C5_DecisionOrderOnUrl ==
    lastRequest # NoRequest =>
        lastRequest.decision =
            FirstMatchingRule(lastRequest.url, lastRequest.url, lastRequest.kind,
                              lastRequest.timedOut, lastRequest.nth)

\* C5 as amended: the listener's decision is the first matching rule, the
\* denylist rule matching the URL without its query and fragment.
C5_DecisionOrderOnNormalizedUrl ==
    lastRequest # NoRequest =>
        lastRequest.decision =
            FirstMatchingRule(lastRequest.url, WithoutQueryAndFragment(lastRequest.url),
                              lastRequest.kind, lastRequest.timedOut, lastRequest.nth)

\* C5 witness: a telemetry request of a blocked kind, on a page that has
\* timed out, above the retry ceiling, was allowed.
C5_Witness ==
    /\ lastRequest # NoRequest
    /\ IsTelemetry(lastRequest.url)
    /\ lastRequest.kind \in BLOCKED_RESOURCE_TYPES
    /\ lastRequest.timedOut
    /\ lastRequest.nth > 5
    /\ lastRequest.decision = "continue"

\* No rule other than the retry ceiling blocks the request.
NoOtherBlockingRule(r) ==
    /\ ~r.timedOut
    /\ r.kind \notin BLOCKED_RESOURCE_TYPES
    /\ ~Denylisted(WithoutQueryAndFragment(r.url))
    /\ ~OffDomainDocument(r.url, r.kind)

TimeoutRecorded(t) ==
    \E i \in ErrorsOf(t) : errors[i].url = Url(t) /\ errors[i].err = "TimeoutError"

\* The post-load try of _request was entered: setViewport is awaited, or
\* _processPage was entered, or the try has thrown into its catch.
PostLoadAttempted(t) ==
    /\ pc[t] # "navClose"
    /\ \/ pc[t] = "viewport"
       \/ depth[t] >= 1
       \/ \E i \in ErrorsOf(t) : errors[i].err = "Error"

\* C7 as claimed: after a navigation timeout the Task has an Error Record
\* with its URL, post-load processing is attempted, and every request of the
\* page after the timeout is blocked.
C7_TimeoutBlocksEveryRequest ==
    \A t \in Tasks :
        navResult[t] = "timeout" =>
            /\ TimeoutRecorded(t)
            /\ PostLoadAttempted(t)
            /\ (lastRequest.task = t /\ lastRequest.afterTimeout) =>
                  lastRequest.decision = "abort"

\* C7 as amended: the same, except that a request to a telemetry endpoint is
\* still allowed after the timeout.
C7_TimeoutBlocksNonTelemetry ==
    \A t \in Tasks :
        navResult[t] = "timeout" =>
            /\ TimeoutRecorded(t)
            /\ PostLoadAttempted(t)
            /\ (lastRequest.task = t /\ lastRequest.afterTimeout) =>
                  lastRequest.decision =
                      IF IsTelemetry(lastRequest.url) THEN "continue" ELSE "abort"

\* C7 witness: the first request to an allowed URL of the site, sent after
\* the timeout while _processPage runs, was blocked.
C7_Witness ==
    \E t \in Tasks :
        /\ navResult[t] = "timeout"
        /\ depth[t] >= 1
        /\ lastRequest.task = t
        /\ lastRequest.afterTimeout
        /\ lastRequest.nth = 1
        /\ lastRequest.kind = "script"
        /\ lastRequest.url[1] = Example
        /\ lastRequest.decision = "abort"

\* C11 as claimed: when the process has exited at the end of a crawl, its
\* exit code is non-zero if and only if the Error Record list is not empty.
C11_ExitNonZeroIffErrors ==
    exitCode # NotExited => ((exitCode # 0) <=> (Len(errors) # 0))

\* C11 as amended: the exit code is non-zero if and only if the Error Record
\* list is not empty or a step of the main (init, close) has thrown.
C11_ExitNonZeroIffErrorsOrThrown ==
    exitCode # NotExited => ((exitCode # 0) <=> (Len(errors) # 0 \/ thrown))

\* C11 witness: a crawl whose main did not throw, with a Task that ran to its
\* end and an Error Record, has exited with 1.
C11_Witness ==
    /\ exitCode = 1
    /\ ~thrown
    /\ Len(errors) # 0
    /\ \E t \in Tasks : pc[t] = "done"

\* An href up to its fragment.
Canonical(link) ==
    SubSeq(link, 1, Cardinality({i \in 1..Len(link) : \A j \in 1..i : link[j] # "#"}))

\* The distinct fragment-stripped hrefs that pass the domain rule of document
\* navigation and that the Ledger does not hold.
UnclaimedAllowed(links, ledger) ==
    {l \in {Canonical(links[i]) : i \in 1..Len(links)} :
        l[1] \in AllowedDomains /\ l \notin ledger}

\* Of these, the ones that hold no entry of the built-in denylist.
UnclaimedAllowedNotDenylisted(links, ledger) ==
    {l \in UnclaimedAllowed(links, ledger) :
        \A i \in 1..Len(l) : l[i] \notin SKIPPED_RESOURCES}

\* The client has queued no URL that the queue had received before.
ClientQueuedOnlyNew ==
    \A i \in PushedBy(0) : \A j \in 1..(i - 1) : pushed[j].url # pushed[i].url

\* The Ledger holds the URLs of the Tasks pushed, and as many as were pushed.
LedgerCountsTasks ==
    ClientQueuedOnlyNew =>
        /\ visited = {pushed[i].url : i \in 1..Len(pushed)}
        /\ Cardinality(visited) = Len(pushed)

C13_ReentryAtMostOnce ==
    \A t \in Tasks : depth[t] <= 2

\* C14: puppeteer.launch succeeds at most once in a crawl run, and all Tasks
\* that hold a browser handle hold the same one.
C14_BrowserLaunchedOnce ==
    /\ launches <= 1
    /\ \A t, u \in Tasks :
          (browserOf[t] # 0 /\ browserOf[u] # 0) => browserOf[t] = browserOf[u]

\* The decision the policy gives a request on the history of its own page
\* alone: whether the navigation of that page timed out, and how many
\* requests that page has sent to the URL.
OwnHistoryDecision(r) ==
    FirstMatchingRule(r.url, WithoutQueryAndFragment(r.url), r.kind, r.afterTimeout, r.nth)

\* C15: a step changes the timed-out flag or the attempt counter of a Task
\* only when it is a step of that Task (of its _request or of its page's
\* listener), and the decision for a request is the one the history of its
\* own page gives, whatever the sibling pages timed out on or requested.
C15_SessionIsolation ==
    [][/\ \A u \in Tasks :
            (hasTimedOut'[u] # hasTimedOut[u] \/ resourceAttempts'[u] # resourceAttempts[u]) =>
                /\ pc'[u] # pc[u] \/ (lastRequest' # lastRequest /\ lastRequest'.task = u)
                /\ \A v \in Tasks \ {u} :
                      /\ pc'[v] = pc[v]
                      /\ hasTimedOut'[v] = hasTimedOut[v]
                      /\ resourceAttempts'[v] = resourceAttempts[v]
       /\ lastRequest' # NoRequest =>
            lastRequest'.decision = OwnHistoryDecision(lastRequest')]_vars

\* C15 witness: a request of a page was allowed while its sibling, still
\* under load, has timed out and is above the retry ceiling for the same URL.
C15_Witness ==
    \E t, u \in Tasks :
        /\ t # u
        /\ lastRequest.task = t
        /\ lastRequest.decision = "continue"
        /\ Listening(u)
        /\ hasTimedOut[u]
        /\ Attempts(resourceAttempts[u], NormalizeRequestUrl(lastRequest.url)) > RetryCeiling

\* C16: of the requests of one page load to one normalized URL that is no
\* telemetry endpoint and that no other rule blocks, those after the fifth
\* are all blocked, and the first five are allowed: the count of a URL
\* starts from zero when the submission of a form begins a new page load.
C16_BlockPermanentAndResetPerLoad ==
    (/\ lastRequest # NoRequest
     /\ ~IsTelemetry(lastRequest.url)
     /\ NoOtherBlockingRule(lastRequest)) =>
        /\ lastRequest.nthInLoad > 5 => lastRequest.decision = "abort"
        /\ lastRequest.nthInLoad <= 5 => lastRequest.decision = "continue"

\* The navigation of the Task's page has failed or timed out.
NavigationFailed(t) == navResult[t] \in {"timeout", "error"}

\* The catch of the post-load try of the Task has run: page.close() is
\* awaited in it, or was called by it and then by the finally.
PostLoadFailed(t) == pc[t] = "catchClose" \/ closeCalls[t] >= 2

\* C17: a step in which the listener decides leaves the Error Record list as
\* it is; the list grows only in a step in which a navigation or a post-load
\* step fails; and while neither has failed, the list is empty.
C17_PolicyBlockIsSilent ==
    [][/\ lastRequest' # lastRequest => errors' = errors
       /\ errors' # errors =>
            \E t \in Tasks :
                \/ ~NavigationFailed(t) /\ NavigationFailed(t)'
                \/ ~PostLoadFailed(t) /\ PostLoadFailed(t)'
       /\ (\A t \in Tasks : ~NavigationFailed(t)' /\ ~PostLoadFailed(t)') => errors' = <<>>]_vars

\* C17 witness: the crawl has drained without an Error Record after the
\* listener blocked a request of a page that ran to its end.
C17_Witness ==
    /\ idle = "resolved"
    /\ lastRequest # NoRequest
    /\ lastRequest.decision = "abort"
    /\ pc[lastRequest.task] = "done"
    /\ errors = <<>>

\* C18: every step leaves the Error Record list as it is or appends one
\* record, of a Task and with that Task's URL, at its end; the records
\* before it keep their place and content.
C18_ErrorsAppendOnly ==
    [][\/ errors' = errors
       \/ /\ Len(errors') = Len(errors) + 1
          /\ SubSeq(errors', 1, Len(errors)) = errors
          /\ errors'[Len(errors')].task \in 1..Len(pushed)
          /\ errors'[Len(errors')].url = pushed[errors'[Len(errors')].task].url]_vars

\* C18 witness: the list holds the records of two Tasks, the one of the Task
\* that was pushed later first.
C18_Witness ==
    /\ Len(errors) >= 2
    /\ errors[1].task = 2
    /\ errors[2].task = 1

\* C20: page.close() is called at most once on the page of a Task.
C20_CloseAtMostOncePerSession ==
    \A t \in Tasks : closeCalls[t] <= 1

\* C19: in the step in which close() closes the browser, every Task that was
\* given a page has settled and its page has been closed.
C19_SessionsClosedBeforeBrowser ==
    [][(closing = "cache" /\ closing' = "closed" /\ browser # 0) =>
            \A t \in opened : Finished(t) /\ closeCalls[t] >= 1]_vars

====
